---- MODULE Spec2Model ----
(***************************************************************************)
(* SAML session-cookie handling of the security dashboards plugin:         *)
(* SamlAuthentication (server/auth/types/saml/saml_auth.ts) together with  *)
(* the compression and cookie-splitting helpers it calls.                  *)
(*                                                                         *)
(* Strings and buffers are sequences of small naturals (character codes,   *)
(* bytes, base64 symbols); URL strings are sequences of tokens.  A missing *)
(* JavaScript value (undefined) is a sentinel of the same sort.            *)
(***************************************************************************)
EXTENDS Integers, Sequences, FiniteSets, TLC

\* ------------------------------------------------------------------ bounds

\* Longest authorization header value a login may carry.
MaxLen == 2
\* Last instant of the clock (Date.now()).
MaxTime == 3
\* config.session.ttl, in clock units.
Ttl == 1
\* Capacity, in base64 symbols, of one overflow cookie slot.
SlotCapacity == 4
\* Largest credential length counted as "small enough for the core cookie".
InlineBudget == 1

\* Number of overflow slots: <cookieName>_saml_1 and <cookieName>_saml_2.
K == 2
\* Size of the alphabet of the text encoding of a byte (two symbols a byte).
Radix == 4

\* --------------------------------------------------------------- JS values

\* undefined, as a string / buffer and as a number.
Undefined == <<-1>>
UndefinedNum == -1
\* An overflow cookie the request does not carry (request.state[name] undefined).
Absent == <<-1>>

Chars == {0, 1}

RECURSIVE SeqsUpTo(_, _)
SeqsUpTo(S, n) ==
  IF n = 0 THEN {<<>>}
  ELSE LET shorter == SeqsUpTo(S, n - 1)
       IN shorter \cup {Append(s, x) : s \in {t \in shorter : Len(t) = n - 1}, x \in S}

\* The authorization header values a login may carry.
HeaderValues == SeqsUpTo(Chars, MaxLen)

Min(a, b) == IF a < b THEN a ELSE b

\* JavaScript truthiness of an optional string, buffer (an object: an empty
\* Buffer is truthy) and number.
TruthyStr(s) == s # Undefined /\ s # <<>>
TruthyBuf(b) == b # Undefined
TruthyNum(n) == n # UndefinedNum /\ n # 0

\* ------------------------------------------------------------- compression

\* Length of the run of Head(s) that s starts with (s non-empty).
RECURSIVE RunLen(_)
RunLen(s) ==
  IF Len(s) >= 2 /\ s[2] = s[1] THEN 1 + RunLen(Tail(s)) ELSE 1

\* The (character, count) pairs of the runs of s.
RECURSIVE Runs(_)
Runs(s) ==
  IF s = <<>> THEN <<>>
  ELSE LET n == RunLen(s)
       IN <<s[1], n>> \o Runs(SubSeq(s, n + 1, Len(s)))

\* utils/compression deflateValue: a lossless compressed form of the value,
\* that states the length of what it holds.
deflateValue(value) == <<Len(value)>> \o Runs(value)

\* The runs expanded again; <<-1>> marks a malformed pair.
RECURSIVE Expand(_)
Expand(pairs) ==
  IF pairs = <<>> THEN <<>>
  ELSE IF Len(pairs) < 2 \/ pairs[2] < 1 THEN <<-1>>
  ELSE LET rest == Expand(SubSeq(pairs, 3, Len(pairs)))
       IN IF rest = <<-1>> THEN <<-1>>
          ELSE [i \in 1..pairs[2] |-> pairs[1]] \o rest

\* utils/compression inflateValue: the value, or a DecodeError on input that
\* is empty, truncated or otherwise not what deflateValue writes.
inflateValue(buffer) ==
  IF buffer = <<>> THEN [ok |-> FALSE, value |-> <<>>]
  ELSE LET out == Expand(Tail(buffer))
       IN IF out = <<-1>> \/ Len(out) # buffer[1]
          THEN [ok |-> FALSE, value |-> <<>>]
          ELSE [ok |-> TRUE, value |-> out]

\* Buffer.toString('base64'): two symbols a byte.
RECURSIVE toBase64(_)
toBase64(bytes) ==
  IF bytes = <<>> THEN <<>>
  ELSE <<bytes[1] \div Radix, bytes[1] % Radix>> \o toBase64(Tail(bytes))

\* Buffer.from(text, 'base64'): never fails; an incomplete trailing group of
\* symbols is dropped.
RECURSIVE fromBase64(_)
fromBase64(text) ==
  IF Len(text) < 2 THEN <<>>
  ELSE <<text[1] * Radix + text[2]>> \o fromBase64(SubSeq(text, 3, Len(text)))

\* --------------------------------------------------------- cookie splitter

\* The overflow cookie slots a request carries: request.state[extraCookieName
\* + '_' + i], for i in 1..K.
NoSlots == [i \in 1..K |-> Absent]

\* request.state[name] is truthy: the cookie is there and is not ''.
Present(fragment) == fragment # Absent /\ fragment # <<>>

\* session/cookie_splitter, write side: the text cut into K contiguous chunks
\* of at most SlotCapacity symbols, one a slot in order; a slot with nothing
\* left for it is not set, and what exceeds the K slots is dropped.
splitValueIntoCookies(text) ==
  [i \in 1..K |->
     LET from == (i - 1) * SlotCapacity + 1
         to == Min(i * SlotCapacity, Len(text))
     IN IF from > to THEN Absent ELSE SubSeq(text, from, to)]

\* The fragments of slots 1..n, in slot order, absent ones skipped.
RECURSIVE JoinUpTo(_, _)
JoinUpTo(state, n) ==
  IF n = 0 THEN <<>>
  ELSE JoinUpTo(state, n - 1) \o (IF Present(state[n]) THEN state[n] ELSE <<>>)

\* session/cookie_splitter unsplitCookiesIntoValue(request, extraCookieName):
\* the present fragments concatenated in slot order; a slot missing before a
\* present one is a corrupt sequence (an error is thrown).
unsplitCookiesIntoValue(request) ==
  IF \E i, j \in 1..K : i < j /\ ~Present(request.state[i]) /\ Present(request.state[j])
  THEN [ok |-> FALSE, value |-> <<>>]
  ELSE [ok |-> TRUE, value |-> JoinUpTo(request.state, K)]

\* ------------------------------------------------------ SamlAuthentication

\* AuthType.SAML, the tag of another scheme, and a cookie without the field.
SAML == "saml"
UndefinedTag == "undefined"
AuthTypes == {SAML, "basicauth", UndefinedTag}

\* A URL string is a sequence of tokens; NoValue is undefined.
NoValue == <<"undefined">>
\* '/app/opensearch-dashboards'
LandingPath == <<"/", "app", "/", "opensearch-dashboards">>
\* '/auth/saml/captureUrlFragment?nextUrl='
CaptureEndpoint == <<"/", "auth", "/", "saml", "/", "captureUrlFragment", "?", "nextUrl", "=">>
\* coreSetup.http.basePath.serverBasePath
BasePaths == {<<>>, <<"/", "dashboards">>}
\* request.url.pathname
Pathnames == {NoValue, <<>>, <<"/">>, <<"/", "app", "/", "my", " ", "home">>}

\* querystring.escape, token by token: what is not unreserved is percent-encoded.
escapeToken(t) ==
  CASE t = "/" -> "%2F"
    [] t = "?" -> "%3F"
    [] t = "=" -> "%3D"
    [] t = " " -> "%20"
    [] OTHER -> t

escape(str) == [i \in 1..Len(str) |-> escapeToken(str[i])]

\* session/security_cookie clearOldVersionCookieValue(config): the set-cookie
\* value that expires the cookie of the previous cookie format.
clearOldVersionCookieValue == <<"security_authentication", "=", ";", "Max-Age", "=", "0">>

\* AuthenticationType.isPageRequest: the classification of the request the
\* base class gives (a page load or a programmatic call).
isPageRequest(request) == request.page

\* No credentials object (cookie.credentials undefined): cookie.credentials?.x
\* is undefined for both fields.
NoCredentials ==
  [defined |-> FALSE, authHeaderValue |-> Undefined, authHeaderValueCompressed |-> Undefined]

\* The browser holds no session cookie.
NoCookie == [authType |-> "none"]

EmptyHeaders == [hasAuthorization |-> FALSE, authorization |-> Undefined]

\* generateNextUrl without the landing path as the default.
generateNextUrl_noDefault(request, serverBasePath) ==
  LET path == serverBasePath \o
                (IF request.url.pathname # NoValue THEN request.url.pathname ELSE <<>>)
  IN escape(path)

generateNextUrl(request, serverBasePath) ==
  LET path == serverBasePath \o
                (IF request.url.pathname # NoValue /\ request.url.pathname # <<>>
                 THEN request.url.pathname ELSE LandingPath)
  IN escape(path)

redirectSAMlCapture(request, serverBasePath) ==
  LET nextUrl == generateNextUrl(request, serverBasePath)
  IN [kind |-> "redirected", status |-> 302,
      location |-> serverBasePath \o CaptureEndpoint \o nextUrl,
      setCookie |-> clearOldVersionCookieValue]

requestIncludesAuthInfo(request) == TruthyStr(request.headers.authorization)

\* getCookie keeping a credential of at most InlineBudget characters inline.
getCookie_inlineSmall(request, authInfo, dateNow) ==
  [username |-> authInfo.user_name,
   credentials |-> IF Len(request.headers.authorization) <= InlineBudget
                   THEN [defined |-> TRUE,
                         authHeaderValue |-> request.headers.authorization,
                         authHeaderValueCompressed |-> Undefined]
                   ELSE [defined |-> TRUE,
                         authHeaderValue |-> Undefined,
                         authHeaderValueCompressed |->
                           deflateValue(request.headers.authorization)],
   authType |-> SAML,
   expiryTime |-> dateNow + Ttl]

\* Date.now() is passed in as dateNow.
getCookie(request, authInfo, dateNow) ==
  [username |-> authInfo.user_name,
   credentials |-> [defined |-> TRUE,
                    authHeaderValue |-> Undefined,
                    authHeaderValueCompressed |-> deflateValue(request.headers.authorization)],
   authType |-> SAML,
   expiryTime |-> dateNow + Ttl]

\* isValidCookie without the username conjunct.
isValidCookie_noUsername(cookie) ==
  /\ cookie.authType = SAML
  /\ TruthyNum(cookie.expiryTime)
  /\ \/ TruthyStr(cookie.credentials.authHeaderValue)
     \/ TruthyBuf(cookie.credentials.authHeaderValueCompressed)

\* isValidCookie without the credentials conjunct.
isValidCookie_noCredentials(cookie) ==
  /\ cookie.authType = SAML
  /\ TruthyStr(cookie.username)
  /\ TruthyNum(cookie.expiryTime)

\* The truthiness of the value the method returns (its callers test it in a
\* condition): a && b && c && (d || e).
isValidCookie(cookie) ==
  /\ cookie.authType = SAML
  /\ TruthyStr(cookie.username)
  /\ TruthyNum(cookie.expiryTime)
  /\ \/ TruthyStr(cookie.credentials.authHeaderValue)
     \/ TruthyBuf(cookie.credentials.authHeaderValueCompressed)

\* handleUnauthedRequest redirecting whatever the request is.
handleUnauthedRequest_alwaysRedirect(request, serverBasePath) ==
  redirectSAMlCapture(request, serverBasePath)

handleUnauthedRequest(request, serverBasePath) ==
  IF isPageRequest(request)
  THEN redirectSAMlCapture(request, serverBasePath)
  ELSE [kind |-> "unauthorized", status |-> 401, location |-> NoValue, setCookie |-> NoValue]

\* buildAuthHeaderFromCookie with the error thrown again in the catch block.
buildAuthHeaderFromCookie_rethrow(cookie, request) ==
  IF TruthyBuf(cookie.credentials.authHeaderValueCompressed)
  THEN LET fullCookieValue == unsplitCookiesIntoValue(request)
           inflatedFullCookieValue ==
             IF fullCookieValue.ok
             THEN inflateValue(fromBase64(fullCookieValue.value))
             ELSE [ok |-> FALSE, value |-> <<>>]
       IN IF inflatedFullCookieValue.ok
          THEN [called |-> TRUE, thrown |-> FALSE, logged |-> FALSE,
                headers |-> [hasAuthorization |-> TRUE,
                             authorization |-> inflatedFullCookieValue.value]]
          ELSE [called |-> TRUE, thrown |-> TRUE, logged |-> TRUE, headers |-> EmptyHeaders]
  ELSE [called |-> TRUE, thrown |-> FALSE, logged |-> FALSE,
        headers |-> [hasAuthorization |-> TRUE,
                     authorization |-> cookie.credentials.authHeaderValue]]

\* buildAuthHeaderFromCookie inflating the joined text without decoding it.
buildAuthHeaderFromCookie_noDecode(cookie, request) ==
  IF TruthyBuf(cookie.credentials.authHeaderValueCompressed)
  THEN LET fullCookieValue == unsplitCookiesIntoValue(request)
           inflatedFullCookieValue ==
             IF fullCookieValue.ok
             THEN inflateValue(fullCookieValue.value)
             ELSE [ok |-> FALSE, value |-> <<>>]
       IN IF inflatedFullCookieValue.ok
          THEN [called |-> TRUE, thrown |-> FALSE, logged |-> FALSE,
                headers |-> [hasAuthorization |-> TRUE,
                             authorization |-> inflatedFullCookieValue.value]]
          ELSE [called |-> TRUE, thrown |-> FALSE, logged |-> TRUE, headers |-> EmptyHeaders]
  ELSE [called |-> TRUE, thrown |-> FALSE, logged |-> FALSE,
        headers |-> [hasAuthorization |-> TRUE,
                     authorization |-> cookie.credentials.authHeaderValue]]

\* buildAuthHeaderFromCookie passing the request's own authorization header
\* on when the cookie holds no inline credential.
buildAuthHeaderFromCookie_readsHeader(cookie, request) ==
  IF TruthyBuf(cookie.credentials.authHeaderValueCompressed)
  THEN LET fullCookieValue == unsplitCookiesIntoValue(request)
           inflatedFullCookieValue ==
             IF fullCookieValue.ok
             THEN inflateValue(fromBase64(fullCookieValue.value))
             ELSE [ok |-> FALSE, value |-> <<>>]
       IN IF inflatedFullCookieValue.ok
          THEN [called |-> TRUE, thrown |-> FALSE, logged |-> FALSE,
                headers |-> [hasAuthorization |-> TRUE,
                             authorization |-> inflatedFullCookieValue.value]]
          ELSE [called |-> TRUE, thrown |-> FALSE, logged |-> TRUE, headers |-> EmptyHeaders]
  ELSE [called |-> TRUE, thrown |-> FALSE, logged |-> FALSE,
        headers |-> [hasAuthorization |-> TRUE,
                     authorization |->
                       IF TruthyStr(cookie.credentials.authHeaderValue)
                       THEN cookie.credentials.authHeaderValue
                       ELSE request.headers.authorization]]

\* thrown: an error leaves the method; logged: this.logger.error was called.
buildAuthHeaderFromCookie(cookie, request) ==
  IF TruthyBuf(cookie.credentials.authHeaderValueCompressed)
  THEN LET fullCookieValue == unsplitCookiesIntoValue(request)
           inflatedFullCookieValue ==
             IF fullCookieValue.ok
             THEN inflateValue(fromBase64(fullCookieValue.value))
             ELSE [ok |-> FALSE, value |-> <<>>]
       IN IF inflatedFullCookieValue.ok
          THEN [called |-> TRUE, thrown |-> FALSE, logged |-> FALSE,
                headers |-> [hasAuthorization |-> TRUE,
                             authorization |-> inflatedFullCookieValue.value]]
          ELSE [called |-> TRUE, thrown |-> FALSE, logged |-> TRUE, headers |-> EmptyHeaders]
  ELSE [called |-> TRUE, thrown |-> FALSE, logged |-> FALSE,
        headers |-> [hasAuthorization |-> TRUE,
                     authorization |-> cookie.credentials.authHeaderValue]]

\* ------------------------------------------------------------------- state

VARIABLES
  now,        \* Date.now()
  basePath,   \* coreSetup.http.basePath.serverBasePath
  jar,        \* the session cookie the browser holds, or NoCookie
  slots,      \* the overflow cookies the browser holds
  login,      \* the last login: its header value, the cookie and slots written
  req,        \* the request being answered, or NoRequest
  valid,      \* what isValidCookie said of req's cookie: "none", "accepted", "rejected"
  built,      \* what buildAuthHeaderFromCookie returned for req
  resp        \* what handleUnauthedRequest returned for req

vars == <<now, basePath, jar, slots, login, req, valid, built, resp>>

NoLogin == [done |-> FALSE]
NoRequest == [made |-> FALSE]
NotBuilt == [called |-> FALSE, thrown |-> FALSE, logged |-> FALSE, headers |-> EmptyHeaders]
NoResponse == [kind |-> "none", status |-> 0, location |-> NoValue, setCookie |-> NoValue]

Usernames == {<<0>>}

\* An incoming request: its authorization header, its path, its page/API
\* classification, and the cookies the browser sends with it.
Request(authorization, pathname, page) ==
  [made |-> TRUE,
   headers |-> [authorization |-> authorization],
   url |-> [pathname |-> pathname],
   page |-> page,
   cookie |-> jar,
   state |-> slots,
   time |-> now]

NoAnswer ==
  /\ req' = NoRequest
  /\ valid' = "none"
  /\ built' = NotBuilt
  /\ resp' = NoResponse

Init ==
  /\ now = 1
  /\ basePath \in BasePaths
  /\ jar = NoCookie
  /\ slots = NoSlots
  /\ login = NoLogin
  /\ req = NoRequest
  /\ valid = "none"
  /\ built = NotBuilt
  /\ resp = NoResponse

\* A request that carries credentials (the login): the session cookie is
\* created from it and the compressed credential is written to the slots.
Login(authorization, user) ==
  LET request == Request(authorization, <<"/">>, TRUE)
  IN /\ requestIncludesAuthInfo(request)
     /\ LET cookie == getCookie(request, [user_name |-> user], now)
            written == splitValueIntoCookies(
                         toBase64(cookie.credentials.authHeaderValueCompressed))
        IN /\ jar' = cookie
           /\ slots' = written
           /\ login' = [done |-> TRUE, header |-> authorization,
                        cookie |-> cookie, slots |-> written]
     /\ NoAnswer
     /\ UNCHANGED <<now, basePath>>

\* A later request without credentials of its own: the session cookie is
\* validated; a valid one has its credential replayed, anything else goes to
\* handleUnauthedRequest.
SessionRequest(authorization, pathname, page) ==
  LET request == Request(authorization, pathname, page)
      accepted == jar # NoCookie /\ isValidCookie(jar)
  IN /\ ~requestIncludesAuthInfo(request)
     /\ req' = request
     /\ valid' = IF jar = NoCookie THEN "none"
                 ELSE IF accepted THEN "accepted" ELSE "rejected"
     /\ built' = IF accepted THEN buildAuthHeaderFromCookie(jar, request) ELSE NotBuilt
     /\ resp' = IF accepted THEN NoResponse ELSE handleUnauthedRequest(request, basePath)
     /\ UNCHANGED <<now, basePath, jar, slots, login>>

\* Time passes.
Tick ==
  /\ now < MaxTime
  /\ now' = now + 1
  /\ NoAnswer
  /\ UNCHANGED <<basePath, jar, slots, login>>

\* The browser (or a proxy in between) loses one overflow cookie.
LoseSlot(i) ==
  /\ slots[i] # Absent
  /\ slots' = [slots EXCEPT ![i] = Absent]
  /\ NoAnswer
  /\ UNCHANGED <<now, basePath, jar, login>>

\* Logout: the session cookie and all slots are cleared together.
Logout ==
  /\ jar # NoCookie
  /\ jar' = NoCookie
  /\ slots' = NoSlots
  /\ login' = NoLogin
  /\ NoAnswer
  /\ UNCHANGED <<now, basePath>>

Next ==
  \/ \E h \in HeaderValues, u \in Usernames : Login(h, u)
  \/ \E h \in {Undefined, <<>>}, p \in Pathnames, pg \in BOOLEAN :
       SessionRequest(h, p, pg)
  \/ Tick
  \/ \E i \in 1..K : LoseSlot(i)
  \/ Logout

Spec == Init /\ [][Next]_vars

\* ------------------------------------------- the methods on arbitrary input

\* Headers whose compressed form stands for "a credential" in the inputs below.
SampleHeaders == {h \in HeaderValues : Len(h) = MaxLen /\ h[1] = 0}

\* The session cookies a request may present, complete or not.
CookieUniverse ==
  [authType : AuthTypes,
   username : {Undefined, <<>>, <<0>>},
   expiryTime : {UndefinedNum, MaxTime},
   credentials :
     {NoCredentials} \cup
     [defined : {TRUE},
      authHeaderValue : {Undefined, <<>>, <<0, 1>>},
      authHeaderValueCompressed : {Undefined, <<>>, deflateValue(<<0, 1>>)}]]

\* The overflow cookies a request may carry: as written, with one or the
\* other lost, in the wrong order, empty, or something else altogether.
SlotUniverse ==
  {NoSlots, [i \in 1..K |-> <<>>], [i \in 1..K |-> <<Radix - 1, Radix - 1>>]} \cup
  UNION {LET w == splitValueIntoCookies(toBase64(deflateValue(h)))
         IN {w, [w EXCEPT ![1] = Absent], [w EXCEPT ![K] = Absent],
             [w EXCEPT ![1] = w[K], ![K] = w[1]]} : h \in SampleHeaders}

InitPure ==
  /\ now = 1
  /\ basePath = <<>>
  /\ jar \in CookieUniverse
  /\ slots \in SlotUniverse
  /\ login = NoLogin
  /\ req = NoRequest
  /\ valid = "none"
  /\ built = NotBuilt
  /\ resp = NoResponse

CallIsValidCookie ==
  /\ req' = Request(Undefined, <<"/">>, FALSE)
  /\ valid' = IF isValidCookie(jar) THEN "accepted" ELSE "rejected"
  /\ built' = NotBuilt
  /\ resp' = NoResponse
  /\ UNCHANGED <<now, basePath, jar, slots, login>>

CallBuildAuthHeaderFromCookie(authorization) ==
  LET request == Request(authorization, <<"/">>, FALSE)
  IN /\ req' = request
     /\ valid' = "none"
     /\ built' = buildAuthHeaderFromCookie(jar, request)
     /\ resp' = NoResponse
     /\ UNCHANGED <<now, basePath, jar, slots, login>>

NextPure ==
  \/ \E h \in HeaderValues, u \in Usernames : Login(h, u)
  \/ CallIsValidCookie
  \/ \E h \in {Undefined, <<>>, <<1>>} : CallBuildAuthHeaderFromCookie(h)

SpecPure == InitPure /\ [][NextPure]_vars

\* ------------------------------------------------------------------ claims

\* The credential fields of a cookie, as the claims speak of them.
InlinePopulated(cookie) ==
  cookie.credentials.authHeaderValue \notin {Undefined, <<>>}
CompressedPopulated(cookie) ==
  cookie.credentials.authHeaderValueCompressed # Undefined

\* Joining the slots of the request, decoding or decompressing fails.
ReconstructionFails(request) ==
  LET joined == unsplitCookiesIntoValue(request)
  IN ~joined.ok \/ ~inflateValue(fromBase64(joined.value)).ok

\* The encoded compressed credential fits in the K overflow slots.
Fits(header) == Len(toBase64(deflateValue(header))) <= K * SlotCapacity

\* The request presents the cookie the last login created.
PresentsLoginCookie == login.done /\ req.made /\ req.cookie = login.cookie

\* C1: buildAuthHeaderFromCookie never lets an error out: called with a cookie
\* whose compressed-credential field is populated, it returns normally, and
\* when joining, decoding or decompressing fails the header map it returns is
\* empty (no authorization key).
C1_BuildNeverThrows ==
  (built.called /\ CompressedPopulated(req.cookie)) =>
    /\ ~built.thrown
    /\ ReconstructionFails(req) => built.headers = EmptyHeaders

C1_Witness ==
  /\ built.called
  /\ CompressedPopulated(req.cookie)
  /\ ReconstructionFails(req)
  /\ ~built.thrown
  /\ ~built.headers.hasAuthorization

\* C2: login then replay is a round trip: when the header value of the login
\* fits in the K slots and a later request presents the login's cookie and the
\* slots as they were written, buildAuthHeaderFromCookie returns a header map
\* whose authorization value is that header value.
C2_LoginReplayRoundTrip ==
  (built.called /\ PresentsLoginCookie /\ req.state = login.slots /\ Fits(login.header)) =>
    /\ ~built.thrown
    /\ built.headers = [hasAuthorization |-> TRUE, authorization |-> login.header]

C2_Witness ==
  /\ built.called
  /\ PresentsLoginCookie
  /\ req.state = login.slots
  /\ Fits(login.header)
  /\ \A i \in 1..K : Present(login.slots[i])
  /\ built.headers.authorization = login.header

C4_UnauthedTwoOutcomes ==
  resp.kind # "none" =>
    IF req.page
    THEN /\ resp.kind = "redirected"
         /\ Len(resp.location) >= Len(basePath \o CaptureEndpoint)
         /\ SubSeq(resp.location, 1, Len(basePath \o CaptureEndpoint))
              = basePath \o CaptureEndpoint
         /\ resp.setCookie = clearOldVersionCookieValue
    ELSE /\ resp.kind = "unauthorized"
         /\ resp.status = 401
         /\ resp.location = NoValue
         /\ resp.setCookie = NoValue

C4_Witness ==
  /\ req.made
  /\ req.page
  /\ resp.kind = "redirected"
  /\ resp.setCookie = clearOldVersionCookieValue

C6_ExactlyOneCredential ==
  /\ login.done => (InlinePopulated(login.cookie) # CompressedPopulated(login.cookie))
  /\ (req.made /\ valid = "accepted") =>
       (InlinePopulated(req.cookie) # CompressedPopulated(req.cookie))

\* C6 amended: every cookie getCookie creates has exactly one credential field
\* populated (the compressed one); every cookie isValidCookie accepts has at
\* least one populated, and may have both.
C6_AtLeastOneCredential ==
  /\ login.done => (CompressedPopulated(login.cookie) /\ ~InlinePopulated(login.cookie))
  /\ (req.made /\ valid = "accepted") =>
       (InlinePopulated(req.cookie) \/ CompressedPopulated(req.cookie))

C6_Witness ==
  /\ req.made
  /\ valid = "accepted"
  /\ InlinePopulated(req.cookie)
  /\ CompressedPopulated(req.cookie)

\* C7: no request made at or after the expiryTime of its session cookie has
\* the session accepted and the credential replayed as authorization header.
C7_NoReplayAfterExpiry ==
  ~ /\ req.made
    /\ valid = "accepted"
    /\ built.called
    /\ built.headers.hasAuthorization
    /\ req.time >= req.cookie.expiryTime

\* C8: when a credential was written across both slots and a request presents
\* the login's cookie with slot 1 but without slot 2, buildAuthHeaderFromCookie
\* returns normally a header map without an authorization value.
C8_MissingSecondSlot ==
  (/\ built.called
   /\ PresentsLoginCookie
   /\ Present(login.slots[2])
   /\ req.state[1] = login.slots[1]
   /\ ~Present(req.state[2])) =>
    /\ ~built.thrown
    /\ built.headers = EmptyHeaders

C8_Witness ==
  /\ built.called
  /\ PresentsLoginCookie
  /\ Present(login.slots[2])
  /\ req.state[1] = login.slots[1]
  /\ req.state[2] = Absent
  /\ ~built.headers.hasAuthorization

\* C9: what buildAuthHeaderFromCookie returns does not depend on the
\* authorization header of the request: the same cookie and slots with any
\* other authorization header give the same result.
C9_ReplayIgnoresRequestHeader ==
  built.called =>
    \A h \in HeaderValues \cup {Undefined} :
      buildAuthHeaderFromCookie(req.cookie, [req EXCEPT !.headers.authorization = h]) = built

C9_Witness ==
  /\ built.called
  /\ req.headers.authorization = <<1>>
  /\ ~CompressedPopulated(req.cookie)
  /\ ~InlinePopulated(req.cookie)

\* C10: the location of the redirect is basePath, the capture endpoint and
\* nextUrl, where nextUrl is the escaped basePath + path of the request, the
\* landing path standing in for a missing path; nextUrl is never empty and
\* holds no unescaped separator.
C10_RedirectLocation ==
  resp.kind = "redirected" =>
    LET given == req.url.pathname
        target == basePath \o (IF given = NoValue \/ given = <<>> THEN LandingPath ELSE given)
        nextUrl == SubSeq(resp.location, Len(basePath \o CaptureEndpoint) + 1,
                          Len(resp.location))
    IN /\ resp.location = basePath \o CaptureEndpoint \o escape(target)
       /\ nextUrl # <<>>
       /\ \A i \in 1..Len(nextUrl) : nextUrl[i] \notin {"/", "?", "=", " "}

C10_Witness ==
  /\ resp.kind = "redirected"
  /\ req.url.pathname = NoValue
  /\ basePath = <<>>
  /\ resp.location = CaptureEndpoint \o <<"%2F", "app", "%2F", "opensearch-dashboards">>

====
